---- MODULE Spec2Model ----
(***************************************************************************)
(* chat-app-ollama-docker/main.py: a Streamlit script that discovers the   *)
(* models of two OpenAI-compatible providers, keeps one transcript per     *)
(* model id in the session state and streams chat completions.             *)
(*                                                                         *)
(* A Python str is a sequence of tokens, so that an f-string is the        *)
(* concatenation of its parts.  A dict is a sequence of [key, value]       *)
(* entries in insertion order.  A session-state key that may be absent is  *)
(* a sequence of length 0 (absent) or 1 (present).                         *)
(***************************************************************************)
EXTENDS Integers, Sequences, FiniteSets, TLC

\* ------------------------------------------------------------- bounds
\* longest model listing a provider returns
MaxList == 2
\* most fragments one completion stream yields
MaxFragments == 2
\* most messages held by all transcripts together when a turn may start
MaxTotal == 4

\* model ids the providers may list
ModelIds == {"llama3", "modelA"}
\* texts of the errors the HTTP client may raise
ErrTexts == {<<"timeout">>}
\* texts the user may submit
UserTexts == {<<"hello">>}
\* fragments a completion stream may yield
Fragments == {<<"Hi">>, <<"!">>}

\* ------------------------------------------------------------- registry
PROVIDERS ==
  << [key |-> "ollama", name |-> "Ollama",
      url |-> "http://localhost:11434/v1", api_key |-> "ollama"],
     [key |-> "docker", name |-> "Docker",
      url |-> "http://localhost:12434/engines/v1", api_key |-> "unused"] >>

ProviderKeys == {PROVIDERS[i].key : i \in 1..Len(PROVIDERS)}

ProviderConfig(k) == CHOOSE p \in {PROVIDERS[i] : i \in 1..Len(PROVIDERS)} : p.key = k

\* ------------------------------------------------------------- helpers
RECURSIVE SeqsUpTo(_, _)
SeqsUpTo(S, n) ==
  IF n = 0 THEN {<<>>}
  ELSE LET shorter == SeqsUpTo(S, n - 1)
       IN  shorter \cup {Append(s, x) : s \in shorter, x \in S}

\* What one provider's endpoint does when its models are listed: it yields
\* the ids of `listing` in order and then the iteration either ends
\* (err = <<>>) or raises the error err[1].
ProviderStates ==
  [listing : SeqsUpTo(ModelIds, MaxList), err : {<<>>} \cup {<<e>> : e \in ErrTexts}]

BackendStates == [ProviderKeys -> ProviderStates]

\* ------------------------------------------------------------- dict
DictKeys(d) == {d[i].key : i \in 1..Len(d)}

DictGet(d, k) == (CHOOSE e \in {d[i] : i \in 1..Len(d)} : e.key = k).value

\* d[k] = v keeping the first writer (the plausible slip: setdefault)
DictSetKeepFirst(d, k, v) ==
  IF k \in DictKeys(d) THEN d ELSE Append(d, [key |-> k, value |-> v])

\* d[k] = v: an existing key keeps its position and takes the new value
DictSet(d, k, v) ==
  IF k \in DictKeys(d)
  THEN [i \in 1..Len(d) |-> IF d[i].key = k THEN [key |-> k, value |-> v] ELSE d[i]]
  ELSE Append(d, [key |-> k, value |-> v])

\* ------------------------------------------------------------- discovery
\* f"{model_id} ({provider_config['name']})"
DisplayName(model_id, provider_config) == <<model_id, " (", provider_config.name, ")">>

ModelInfo(model_id, provider_config) ==
  [name |-> model_id, provider |-> provider_config.key,
   display_name |-> DisplayName(model_id, provider_config)]

\* f"Could not connect to {name} at {url}: {e}"
ConnectError(provider_config, e) ==
  <<"Could not connect to ", provider_config.name, " at ", provider_config.url, ": ">> \o e

\* the body of `for model in client.models.list()` over the ids yielded
RECURSIVE ListInto(_, _, _)
ListInto(models, ids, provider_config) ==
  IF ids = <<>> THEN models
  ELSE ListInto(DictSet(models, Head(ids), ModelInfo(Head(ids), provider_config)),
                Tail(ids), provider_config)

\* the loop over PROVIDERS that gives up at the first provider that fails
RECURSIVE DiscoverLoopBreak(_, _, _, _)
DiscoverLoopBreak(i, models, errors, backend_) ==
  IF i > Len(PROVIDERS) THEN [models |-> models, errors |-> errors]
  ELSE LET provider_config == PROVIDERS[i]
           st == backend_[provider_config.key]
       IN  IF st.err = <<>>
           THEN DiscoverLoopBreak(i + 1, ListInto(models, st.listing, provider_config),
                                  errors, backend_)
           ELSE [models |-> ListInto(models, st.listing, provider_config),
                 errors |-> Append(errors, ConnectError(provider_config, st.err[1]))]

\* the loop over PROVIDERS from provider i on
RECURSIVE DiscoverLoop(_, _, _, _)
DiscoverLoop(i, models, errors, backend_) ==
  IF i > Len(PROVIDERS) THEN [models |-> models, errors |-> errors]
  ELSE LET provider_config == PROVIDERS[i]
           st == backend_[provider_config.key]
           models2 == ListInto(models, st.listing, provider_config)
           errors2 == IF st.err = <<>> THEN errors
                      ELSE Append(errors, ConnectError(provider_config, st.err[1]))
       IN  DiscoverLoop(i + 1, models2, errors2, backend_)

discover_models(backend_) == DiscoverLoop(1, <<>>, <<>>, backend_)

\* a discovery that ignores the memo and queries again
CachedDiscoverRequery(memo, backend_) == discover_models(backend_)

\* @st.cache_data: the memoized result when there is one
CachedDiscover(memo, backend_) ==
  IF memo # <<>> THEN memo[1] ELSE discover_models(backend_)

\* ------------------------------------------------------------- state
VARIABLES
  backend,         \* what each provider's endpoint currently does (ProviderStates)
  cache,           \* st.cache_data memo of discover_models: <<>> or <<result>>
  session_models,  \* st.session_state.models: <<>> (absent) or <<dict>>
  session_errors,  \* st.session_state.errors
  selected,        \* st.session_state.selected_model_display_name: <<>> or <<name>>
  messages,        \* model id |-> st.session_state["messages_<id>"], present keys only
  halted,          \* the last run ended at st.stop()
  trigger,         \* the widget event that started the last run
  pc,              \* position of the running script within a chat turn
  prompt,          \* the script's local `prompt`
  turn_model,      \* the script's local `selected_model_id` during a turn
  turn_base,       \* length of the turn's transcript when chat_input returned
  request,         \* the chat-completion request in flight: <<>> or <<request>>
  yielded,         \* the fragments the stream has yielded so far
  response,        \* the text st.write_stream has accumulated
  exc              \* the exception caught by `except Exception`: <<>> or <<e>>

vars == <<backend, cache, session_models, session_errors, selected, messages, halted, trigger,
          pc, prompt, turn_model, turn_base, request, yielded, response, exc>>

turn_vars == <<prompt, turn_model, turn_base, request, yielded, response, exc>>

NoMessages == [k \in {} |-> <<>>]

Message(role, content) == [role |-> role, content |-> content]

RECURSIVE TotalLen(_, _)
TotalLen(msgs, ids) ==
  IF ids = {} THEN 0
  ELSE LET k == CHOOSE x \in ids : TRUE
       IN  Len(msgs[k]) + TotalLen(msgs, ids \ {k})

\* ------------------------------------------------------------- script
\* a check that never finds the mapping empty
NoModelsNever(models) == FALSE

\* `if not st.session_state.models`
NoModels(models) == models = <<>>

\* {model_info["display_name"]: model_id for model_id, model_info in models.items()}
RECURSIVE ModelOptionsFrom(_, _)
ModelOptionsFrom(acc, models) ==
  IF models = <<>> THEN acc
  ELSE ModelOptionsFrom(DictSet(acc, Head(models).value.display_name, Head(models).key),
                        Tail(models))

ModelOptions(models) == ModelOptionsFrom(<<>>, models)

\* list(model_options.keys())
OptionList(model_options) == [i \in 1..Len(model_options) |-> model_options[i].key]

\* st.selectbox(options, index=0, key=...): the option the user just picked,
\* else the stored value while it is still an option, else the first option;
\* <<>> stands for None, the value over an empty option list.
Selectbox(options, stored, ev) ==
  IF options = <<>> THEN <<>>
  ELSE IF ev.kind = "select" THEN ev.value
  ELSE IF stored # <<>> /\ stored[1] \in {options[i] : i \in 1..Len(options)} THEN stored[1]
  ELSE options[1]

\* a clear that resets every transcript of the session
ClearHistoryAll(msgs, id) == [k \in DOMAIN msgs \cup {id} |-> <<>>]

\* st.session_state[f"messages_{selected_model_id}"] = []
ClearHistory(msgs, id) ==
  [k \in DOMAIN msgs \cup {id} |-> IF k = id THEN <<>> ELSE msgs[k]]

\* `if f"messages_{selected_model_id}" not in st.session_state: ... = []`
InitHistory(msgs, id) ==
  IF id \in DOMAIN msgs THEN msgs ELSE [k \in DOMAIN msgs \cup {id} |-> IF k = id THEN <<>> ELSE msgs[k]]

\* st.session_state[f"messages_{id}"].append(message)
AppendTo(msgs, id, message) == [msgs EXCEPT ![id] = Append(@, message)]

\* the locals of a script run that is not in a chat turn
ResetTurn ==
  /\ prompt' = <<>>
  /\ turn_model' = ""
  /\ turn_base' = 0
  /\ request' = <<>>
  /\ yielded' = <<>>
  /\ response' = <<>>
  /\ exc' = <<>>

\* One run of the script from its first line, triggered by the widget event
\* ev, up to its end, its st.stop(), or the append of the user message.
\* A click on "Clear Chat History" runs st.rerun(): the script starts over
\* with the button released, which finds the transcript present and empty.
Script(ev) ==
  LET result == IF session_models = <<>>
                THEN CachedDiscover(cache, backend)
                ELSE [models |-> session_models[1], errors |-> session_errors]
      models == result.models
      model_options == ModelOptions(models)
      sel == Selectbox(OptionList(model_options), selected, ev)
  IN  /\ backend' = backend
      /\ trigger' = ev.kind
      /\ cache' = IF session_models = <<>> /\ cache = <<>> THEN <<result>> ELSE cache
      /\ session_models' = <<models>>
      /\ session_errors' = result.errors
      /\ IF NoModels(models)
         THEN \* st.error(...); st.stop()
              /\ halted' = TRUE
              /\ pc' = "Idle"
              /\ UNCHANGED <<selected, messages>>
              /\ ResetTurn
         ELSE IF sel \notin DictKeys(model_options)
         THEN \* model_options[selected_display_name] raises KeyError
              /\ halted' = FALSE
              /\ pc' = "Idle"
              /\ selected' = <<sel>>
              /\ UNCHANGED messages
              /\ ResetTurn
         ELSE LET selected_model_id == DictGet(model_options, sel)
                  cleared == IF ev.kind = "clear"
                             THEN ClearHistory(messages, selected_model_id)
                             ELSE messages
                  history == InitHistory(cleared, selected_model_id)
              IN  /\ halted' = FALSE
                  /\ selected' = <<sel>>
                  /\ IF ev.kind = "submit"
                     THEN /\ messages' = AppendTo(history, selected_model_id,
                                                  Message("user", ev.value))
                          /\ pc' = "UserAppended"
                          /\ prompt' = ev.value
                          /\ turn_model' = selected_model_id
                          /\ turn_base' = Len(history[selected_model_id])
                          /\ request' = <<>>
                          /\ yielded' = <<>>
                          /\ response' = <<>>
                          /\ exc' = <<>>
                     ELSE /\ messages' = history
                          /\ pc' = "Idle"
                          /\ ResetTurn

\* the widgets of the page are on screen: the last run got past st.stop()
Rendered == session_models # <<>> /\ ~halted /\ selected # <<>>

RerunEvent == [kind |-> "rerun", value |-> <<>>]
ClearEvent == [kind |-> "clear", value |-> <<>>]
SelectEvents ==
  IF session_models = <<>> THEN {}
  ELSE {[kind |-> "select", value |-> session_models[1][i].value.display_name] :
          i \in 1..Len(session_models[1])}
SubmitEvents ==
  IF TotalLen(messages, DOMAIN messages) + 2 <= MaxTotal
  THEN {[kind |-> "submit", value |-> t] : t \in UserTexts}
  ELSE {}

\* ------------------------------------------------------------- user actions
\* the first load of the page, or a rerun that changes no widget
Rerun == pc = "Idle" /\ Script(RerunEvent)

SelectModel == pc = "Idle" /\ Rendered /\ \E ev \in SelectEvents : Script(ev)

ClearChat == pc = "Idle" /\ Rendered /\ Script(ClearEvent)

SubmitPrompt == pc = "Idle" /\ Rendered /\ \E ev \in SubmitEvents : Script(ev)

\* ------------------------------------------------------------- chat turn
\* [{"role": m["role"], "content": m["content"]} for m in transcript]
MessageList(transcript) ==
  [i \in 1..Len(transcript) |-> [role |-> transcript[i].role, content |-> transcript[i].content]]

\* client.chat.completions.create(model=..., messages=..., stream=True) on the
\* client of the provider that owns the model
CompletionRequest(models, model_id, transcript) ==
  LET provider_config == ProviderConfig(DictGet(models, model_id).provider)
  IN  [base_url |-> provider_config.url, api_key |-> provider_config.api_key,
       model |-> model_id, messages |-> MessageList(transcript), stream |-> TRUE]

\* an accumulation that puts each new fragment in front
AccumulateFront(text, fragment) == fragment \o text

\* st.write_stream: the text so far followed by the new fragment
Accumulate(text, fragment) == text \o fragment

\* f"An error occurred: {e}"
ErrorMessage(e) == <<"An error occurred: ">> \o e

\* an except branch that shows the error and stores nothing
RecordErrorShownOnly(msgs, id, e) == msgs

\* the except branch: the error text stored as an assistant message
RecordError(msgs, id, e) == AppendTo(msgs, id, Message("assistant", ErrorMessage(e)))

\* line 104: the request is built from the transcript and sent
IssueRequest ==
  /\ pc = "UserAppended"
  /\ pc' = "Streaming"
  /\ request' = <<CompletionRequest(session_models[1], turn_model, messages[turn_model])>>
  /\ UNCHANGED <<backend, cache, session_models, session_errors, selected, messages,
                 halted, trigger, prompt, turn_model, turn_base, yielded, response, exc>>

\* line 109: the stream yields one more fragment, which write_stream shows
StreamFragment ==
  /\ pc = "Streaming"
  /\ Len(yielded) < MaxFragments
  /\ \E f \in Fragments :
       /\ yielded' = Append(yielded, f)
       /\ response' = Accumulate(response, f)
  /\ UNCHANGED <<backend, cache, session_models, session_errors, selected, messages,
                 halted, trigger, pc, prompt, turn_model, turn_base, request, exc>>

\* lines 109-110: the stream ends, write_stream returns, the reply is stored
StreamEnd ==
  /\ pc = "Streaming"
  /\ messages' = AppendTo(messages, turn_model, Message("assistant", response))
  /\ pc' = "Completed"
  /\ UNCHANGED <<backend, cache, session_models, session_errors, selected,
                 halted, trigger, prompt, turn_model, turn_base, request, yielded, response, exc>>

\* lines 111-113: create() or the stream raises; the handler builds and
\* shows the error message
StreamRaise ==
  /\ pc = "Streaming"
  /\ \E e \in ErrTexts : exc' = <<e>>
  /\ pc' = "Handling"
  /\ UNCHANGED <<backend, cache, session_models, session_errors, selected, messages,
                 halted, trigger, prompt, turn_model, turn_base, request, yielded, response>>

\* line 114
AppendError ==
  /\ pc = "Handling"
  /\ messages' = RecordError(messages, turn_model, exc[1])
  /\ pc' = "Failed"
  /\ UNCHANGED <<backend, cache, session_models, session_errors, selected,
                 halted, trigger, prompt, turn_model, turn_base, request, yielded, response, exc>>

\* the script reaches its last line
ScriptEnd ==
  /\ pc \in {"Completed", "Failed"}
  /\ pc' = "Idle"
  /\ ResetTurn
  /\ UNCHANGED <<backend, cache, session_models, session_errors, selected, messages,
                 halted, trigger>>

\* The positions of a turn where the script calls into Streamlit (st.chat_message
\* and st.markdown at 99-102, each write of st.write_stream at 109, st.error
\* at 113).  A widget event that arrives during a run makes the next such call
\* raise the rerun control exception, which derives from BaseException and so
\* passes `except Exception`; the script then starts over with that event.
YieldPoints == {"UserAppended", "Streaming", "Handling"}

Interrupt ==
  /\ pc \in YieldPoints
  /\ \E ev \in {RerunEvent, ClearEvent} \cup SelectEvents \cup SubmitEvents : Script(ev)

\* ------------------------------------------------------------- environment
\* one provider starts, stops or changes the models it serves
ProviderChange ==
  /\ \E k \in ProviderKeys : \E st \in ProviderStates :
       /\ st # backend[k]
       /\ backend' = [backend EXCEPT ![k] = st]
  /\ UNCHANGED <<cache, session_models, session_errors, selected, messages, halted,
                 trigger, pc, turn_vars>>

\* the browser opens a new session of the same server process: the session
\* state is fresh, the st.cache_data memo is the process's
NewSession ==
  /\ pc = "Idle"
  /\ session_models # <<>>
  /\ session_models' = <<>>
  /\ session_errors' = <<>>
  /\ selected' = <<>>
  /\ messages' = NoMessages
  /\ halted' = FALSE
  /\ trigger' = "none"
  /\ UNCHANGED <<backend, cache, pc, turn_vars>>

\* ------------------------------------------------------------- specifications
InitSession ==
  /\ cache = <<>>
  /\ session_models = <<>>
  /\ session_errors = <<>>
  /\ selected = <<>>
  /\ messages = NoMessages
  /\ halted = FALSE
  /\ trigger = "none"
  /\ pc = "Idle"
  /\ prompt = <<>>
  /\ turn_model = ""
  /\ turn_base = 0
  /\ request = <<>>
  /\ yielded = <<>>
  /\ response = <<>>
  /\ exc = <<>>

Down == [listing |-> <<>>, err |-> <<CHOOSE e \in ErrTexts : TRUE>>]
Serves(ids) == [listing |-> ids, err |-> <<>>]

\* the provider states of the chat sessions: both down, one up, both up
ChatBackends ==
  {b \in BackendStates :
     /\ b["ollama"] \in {Down, Serves(<<"llama3">>)}
     /\ b["docker"] \in {Down, Serves(<<"modelA">>), Serves(<<"llama3", "modelA">>)}}

\* one session chatting with providers that were found at the first load
Init == backend \in ChatBackends /\ InitSession

Next ==
  \/ Rerun
  \/ SelectModel
  \/ ClearChat
  \/ SubmitPrompt
  \/ IssueRequest
  \/ StreamFragment
  \/ StreamEnd
  \/ StreamRaise
  \/ AppendError
  \/ ScriptEnd
  \/ Interrupt

Spec == Init /\ [][Next]_vars

\* discovery over every provider state, across provider changes and sessions
InitDiscovery == backend \in BackendStates /\ InitSession

NextDiscovery ==
  \/ Rerun
  \/ ProviderChange
  \/ NewSession

SpecDiscovery == InitDiscovery /\ [][NextDiscovery]_vars

\* ------------------------------------------------------------- claims
Range(seq) == {seq[i] : i \in 1..Len(seq)}

RECURSIVE Concat(_)
Concat(fragments) ==
  IF fragments = <<>> THEN <<>> ELSE Head(fragments) \o Concat(Tail(fragments))

Transcript == messages[turn_model]

SelectedModelId(models, sel) == DictGet(ModelOptions(models), sel[1])

ClearStep == (pc = "Idle" \/ pc \in YieldPoints) /\ Rendered /\ Script(ClearEvent)

\* C4: a clear leaves the selected model's transcript empty and changes no
\* other transcript, nor the session's models and errors.
C4_ClearFrame ==
  [][ClearStep =>
       LET id == SelectedModelId(session_models[1], selected')
       IN  /\ DOMAIN messages' = DOMAIN messages \cup {id}
           /\ messages'[id] = <<>>
           /\ \A k \in DOMAIN messages \ {id} : messages'[k] = messages[k]
           /\ session_models' = session_models
           /\ session_errors' = session_errors]_vars

\* a clear of one model's transcript while the other model has a finished turn
C4_Witness ==
  /\ trigger = "clear"
  /\ selected # <<>>
  /\ \E id \in DOMAIN messages : \E other \in DOMAIN messages :
       /\ id = SelectedModelId(session_models[1], selected)
       /\ other # id
       /\ messages[id] = <<>>
       /\ Len(messages[other]) = 2

\* C7: when discovery found no model, every run stops at st.stop(): nothing is
\* selected, no transcript exists and no completion request is issued.
C7_NoModelsHalts ==
  (session_models # <<>> /\ session_models[1] = <<>>) =>
    /\ halted
    /\ selected = <<>>
    /\ messages = NoMessages
    /\ request = <<>>
    /\ pc = "Idle"

\* both providers were tried, both failed, and the run stopped
C7_Witness ==
  /\ session_models = << <<>> >>
  /\ Len(session_errors) = Len(PROVIDERS)
  /\ halted

\* C9: a turn goes Idle -> UserAppended -> Streaming -> Completed or Failed ->
\* Idle, the request carries the whole transcript with the user's message last,
\* and nothing the user does ends a turn before its assistant message is stored.
C9_TurnStateMachine ==
  [][/\ pc = "Idle" => pc' \in {"Idle", "UserAppended"}
     /\ pc = "UserAppended" =>
          /\ pc' = "Streaming"
          /\ request'[1].messages = Transcript
          /\ Transcript[Len(Transcript)] = [role |-> "user", content |-> prompt]
     /\ pc \in {"Streaming", "Handling"} =>
          pc' \in {"Streaming", "Handling", "Completed", "Failed"}
     /\ pc \in {"Completed", "Failed"} => pc' = "Idle"]_vars

EvenAlternating(t) ==
  /\ Len(t) % 2 = 0
  /\ \A i \in 1..Len(t) : t[i].role = IF i % 2 = 1 THEN "user" ELSE "assistant"

\* C10: whenever no turn is in progress every transcript has even length and
\* alternates user, assistant, ... from a user message.
C10_Alternation ==
  pc = "Idle" => \A k \in DOMAIN messages : EvenAlternating(messages[k])

\* ------------------------------------------------------------- discovery claims
Succeeding(b) == {k \in ProviderKeys : b[k].err = <<>>}
Failing(b) == {k \in ProviderKeys : b[k].err # <<>>}

\* the step on which the providers are queried: the memo is filled
QueryStep == cache = <<>> /\ cache' # <<>>

ErrorsOf(result, provider_config) ==
  {j \in 1..Len(result.errors) :
     /\ Len(result.errors[j]) >= 4
     /\ SubSeq(result.errors[j], 1, 4) =
          <<"Could not connect to ", provider_config.name, " at ", provider_config.url>>}

\* C2 as stated: one successful listing makes the models mapping non-empty
C2_NonEmptyWhenOneSucceeds ==
  [][QueryStep =>
       (Succeeding(backend) # {} =>
          /\ cache'[1].models # <<>>
          /\ Len(cache'[1].errors) = Cardinality(Failing(backend)))]_vars

\* C2: when a provider's listing succeeds with at least one model the models
\* mapping is non-empty; errors holds exactly one entry per failing provider,
\* naming it, its URL and the error; and every provider is queried whatever
\* happened to the providers before it.
C2_DiscoveryErrors ==
  [][QueryStep =>
       LET result == cache'[1]
       IN  /\ (\E k \in Succeeding(backend) : backend[k].listing # <<>>)
                => result.models # <<>>
           /\ Len(result.errors) = Cardinality(Failing(backend))
           /\ \A i \in 1..Len(PROVIDERS) :
                LET provider_config == PROVIDERS[i]
                    st == backend[provider_config.key]
                IN  /\ Range(st.listing) \subseteq DictKeys(result.models)
                    /\ st.err = <<>> => ErrorsOf(result, provider_config) = {}
                    /\ st.err # <<>> =>
                         \E j \in 1..Len(result.errors) :
                           /\ ErrorsOf(result, provider_config) = {j}
                           /\ result.errors[j] =
                                <<"Could not connect to ", provider_config.name, " at ",
                                  provider_config.url, ": ">> \o st.err[1]]_vars

\* Ollama is unreachable and Docker serves modelA
C2_Witness ==
  /\ cache # <<>>
  /\ cache[1] = discover_models(backend)
  /\ backend["ollama"].err # <<>>
  /\ backend["docker"] = [listing |-> <<"modelA">>, err |-> <<>>]
  /\ cache[1].errors =
       << <<"Could not connect to ", "Ollama", " at ", "http://localhost:11434/v1", ": ",
            "timeout">> >>
  /\ DictKeys(cache[1].models) = {"modelA"}

\* C3: once a run has stored models and errors in the session they never
\* change in that session, the memo is never recomputed, and a call of
\* discovery returns the stored result whatever the providers do now.
C3_Memoized ==
  /\ [](session_models # <<>> =>
          /\ cache # <<>>
          /\ CachedDiscover(cache, backend) =
               [models |-> session_models[1], errors |-> session_errors])
  /\ [][/\ cache # <<>> => cache' = cache
        /\ (session_models # <<>> /\ session_models' # <<>>) =>
             /\ session_models' = session_models
             /\ session_errors' = session_errors]_vars

\* a rerun of a session whose providers no longer serve what it discovered
C3_Witness ==
  /\ session_models # <<>>
  /\ trigger = "rerun"
  /\ discover_models(backend).models # session_models[1]
  /\ discover_models(backend).errors # session_errors

Listers(b, id) == {i \in 1..Len(PROVIDERS) : id \in Range(b[PROVIDERS[i].key].listing)}

Max(S) == CHOOSE x \in S : \A y \in S : y <= x

\* C6: a model id listed by more than one provider has exactly one entry in the
\* merged mapping, owned by the last of them in iteration order and carrying
\* that provider's display name.
C6_LastWriterWins ==
  [][QueryStep =>
       \A id \in ModelIds :
         Cardinality(Listers(backend, id)) > 1 =>
           LET models == cache'[1].models
               last == PROVIDERS[Max(Listers(backend, id))]
           IN  /\ Cardinality({i \in 1..Len(models) : models[i].key = id}) = 1
               /\ DictGet(models, id).provider = last.key
               /\ DictGet(models, id).display_name = <<id, " (", last.name, ")">>]_vars

\* both providers list llama3 and the entry is Docker's
C6_Witness ==
  /\ cache # <<>>
  /\ cache[1] = discover_models(backend)
  /\ Cardinality(Listers(backend, "llama3")) = 2
  /\ DictGet(cache[1].models, "llama3").display_name = <<"llama3", " (", "Docker", ")">>

\* C8: a provider contributes all the models it listed and no error, or no
\* model and exactly one error.
C8_AllOrNothing ==
  [][QueryStep =>
       \A i \in 1..Len(PROVIDERS) :
         LET result == cache'[1]
             provider_config == PROVIDERS[i]
             st == backend[provider_config.key]
             owned == {j \in 1..Len(result.models) :
                         result.models[j].value.provider = provider_config.key}
         IN  \/ /\ Range(st.listing) \subseteq DictKeys(result.models)
                /\ ErrorsOf(result, provider_config) = {}
             \/ /\ owned = {}
                /\ Cardinality(ErrorsOf(result, provider_config)) = 1]_vars

====
